---- MODULE Spec2Model ----
(***************************************************************************)
(* Quota-aware scheduling engine of the Nigerian Event Pipeline:           *)
(* the quota ledger (utils/quota_manager.py), the allocator, the response  *)
(* cache (utils/api_cache.py), the query catalog and selector              *)
(* (utils/prioritized_queries.py), the ingest gate                         *)
(* (database/db_manager.py) and the run orchestration                      *)
(* (enhanced_scheduler.py, scrapers/search_scraper.py).                    *)
(*                                                                         *)
(* Time is counted in whole hours; Day(t) is the calendar day of hour t.   *)
(* The deployment modelled has GOOGLE_API_KEY and GOOGLE_CSE_ID set, so    *)
(* scrape_google_search always takes the Custom Search API branch.         *)
(***************************************************************************)
EXTENDS Integers, Sequences, FiniteSets, TLC

VARIABLES
    now,        \* wall clock, in hours
    disk,       \* [read, write]: whether the quota file can be read / written
    quotaFile,  \* quota_tracking.json: <<>> when absent, <<data>> when present
    ret,        \* what the last direct call of the ledger API returned
    nDirect,    \* number of direct record_api_call invocations so far
    cache,      \* cache directory: cache key -> stored entry
    db,         \* events table, in insertion order
    run,        \* the pipeline run in progress (kind "none" when idle)
    nRuns,      \* number of runs started so far
    nFail,      \* number of failed external fetches so far
    apiCallsToday, \* external search calls answered by the provider today
    thr,        \* concurrent recorders: [base, th: thread -> [pc, data, calls, oks]]
    conns,      \* database connections: connection -> the save_events call on it
    sched       \* scheduler.py / main.py: the running flag and the two threads

ledgerVars == <<disk, quotaFile, ret, nDirect>>
runVars == <<cache, db, run, nRuns, nFail, apiCallsToday>>
vars == <<now, disk, quotaFile, ret, nDirect, cache, db, run, nRuns, nFail,
          apiCallsToday, thr, conns, sched>>

(***************************************************************************)
(* Bounds of the model.                                                    *)
(***************************************************************************)
StartHour == 45          \* hour at which the process is constructed (day 1, 21:00)
MaxNow == 49             \* the clock stops advancing at this hour
MaxStartRemaining == 12  \* calls left in the quota file found at construction
MaxDirect == 2           \* direct record_api_call invocations per behaviour
MaxRuns == 2             \* pipeline runs per behaviour
MaxFail == 1             \* failed external fetches per behaviour
MaxAsk == 2              \* largest n asked of can_make_calls(n)
MaxThreadCalls == 2      \* record calls per concurrent thread
MaxSelect == 63          \* largest max_calls asked of a selector
MaxBatch == 2            \* longest batch handed to save_events directly
MaxQueries == 2          \* search queries of one run_pipeline that are modelled

(***************************************************************************)
(* Program constants.                                                      *)
(***************************************************************************)
daily_limit == 100
safety_buffer == 10
usable_quota == daily_limit - safety_buffer
HoursPerDay == 24

Day(t) == t \div HoursPerDay

Max(a, b) == IF a >= b THEN a ELSE b
Min(a, b) == IF a <= b THEN a ELSE b

(***************************************************************************)
(* Query descriptors.  A query text is identified by <<tier, index>>.      *)
(***************************************************************************)
Tier(name, n, type) ==
    [i \in 1..n |-> [query |-> <<name, i>>, priority |-> name, type |-> type]]

DirectQueries == {<<"urgent", 1>>}

\* Python's None where a response body is expected
None == [kind |-> "none", items |-> <<>>]

(***************************************************************************)
(* Quota ledger: utils/quota_manager.py                                    *)
(***************************************************************************)
\* save_quota_data: the write is swallowed when it fails
save_quota_data(f, data, d) == IF d.write THEN <<data>> ELSE f

reset_daily_quota(f, t, d) ==
    LET quota_data == [date |-> t, calls_used |-> 0,
                       calls_remaining |-> usable_quota,
                       query_history |-> <<>>]
    IN  [data |-> quota_data, file |-> save_quota_data(f, quota_data, d)]

\* mutant: the stored timestamp is compared whole, not by its date
load_quota_data_FullTimestamp(f, t, d) ==
    IF f # <<>> /\ d.read /\ f[1].date = t
    THEN [data |-> f[1], file |-> f]
    ELSE reset_daily_quota(f, t, d)

\* mutant: the day check is dropped, stale data is returned as is
load_quota_data_NoRollover(f, t, d) ==
    IF f # <<>> /\ d.read
    THEN [data |-> f[1], file |-> f]
    ELSE reset_daily_quota(f, t, d)

\* returns the loaded data and the file as load leaves it
load_quota_data(f, t, d) ==
    IF f # <<>> /\ d.read /\ Day(f[1].date) = Day(t)
    THEN [data |-> f[1], file |-> f]
    ELSE reset_daily_quota(f, t, d)

get_quota_status_AlwaysCan(f, t, d) ==
    LET l == load_quota_data(f, t, d)
    IN  [calls_used |-> l.data.calls_used,
         calls_remaining |-> l.data.calls_remaining,
         percentage_used |-> (l.data.calls_used * 100) \div usable_quota,
         can_make_calls |-> TRUE,
         file |-> l.file]

\* percentage_used is a float in the source; its integer part is kept here
get_quota_status(f, t, d) ==
    LET l == load_quota_data(f, t, d)
    IN  [calls_used |-> l.data.calls_used,
         calls_remaining |-> l.data.calls_remaining,
         percentage_used |-> (l.data.calls_used * 100) \div usable_quota,
         can_make_calls |-> l.data.calls_remaining > 0,
         file |-> l.file]

can_make_calls_AlwaysTrue(f, t, d, num_calls) ==
    LET status == get_quota_status(f, t, d)
    IN  [value |-> TRUE, file |-> status.file]

can_make_calls(f, t, d, num_calls) ==
    LET status == get_quota_status(f, t, d)
    IN  [value |-> status.calls_remaining >= num_calls, file |-> status.file]

\* mutant: the call is counted but remaining is not decremented
record_api_call_NoDecrement(f, t, d, query, query_type) ==
    LET l == load_quota_data(f, t, d)
    IN  IF l.data.calls_remaining <= 0
        THEN [value |-> FALSE, file |-> l.file]
        ELSE [value |-> TRUE,
              file |-> save_quota_data(l.file,
                  [l.data EXCEPT !.calls_used = @ + 1,
                                 !.query_history = Append(@,
                                     [timestamp |-> t, query |-> query,
                                      type |-> query_type])], d)]

\* mutant: the exhaustion check is missing
record_api_call_NoGuard(f, t, d, query, query_type) ==
    LET l == load_quota_data(f, t, d)
    IN  [value |-> TRUE,
         file |-> save_quota_data(l.file,
             [l.data EXCEPT !.calls_used = @ + 1,
                            !.calls_remaining = @ - 1,
                            !.query_history = Append(@,
                                [timestamp |-> t, query |-> query,
                                 type |-> query_type])], d)]

\* lines 97-104: the loaded data with one more call counted
Recorded(data, t, query, query_type) ==
    [data EXCEPT !.calls_used = @ + 1,
                 !.calls_remaining = @ - 1,
                 !.query_history = Append(@, [timestamp |-> t, query |-> query,
                                              type |-> query_type])]

record_api_call(f, t, d, query, query_type) ==
    LET l == load_quota_data(f, t, d)
    IN  IF l.data.calls_remaining <= 0
        THEN [value |-> FALSE, file |-> l.file]
        ELSE [value |-> TRUE,
              file |-> save_quota_data(l.file,
                           Recorded(l.data, t, query, query_type), d)]

(***************************************************************************)
(* Allocator: QuotaManager.distribute_daily_quota.  The source scales with *)
(* floats, int(share * (remaining / total)); for every remaining in        *)
(* 0..daily_limit that equals the integer quotient used here.              *)
(***************************************************************************)
NoPlan == [comprehensive |-> 0, quick |-> 0, social |-> 0, emergency |-> 0]

PlanTotal(a) == a.comprehensive + a.quick + a.social + a.emergency

\* the shares as lines 143-148 would be with an emergency floor of 1
base_allocation_EmergencyFloorOne(remaining) ==
    [comprehensive |-> Max(1, remaining \div 3),
     quick |-> Max(1, remaining \div 6),
     social |-> Max(1, remaining \div 8),
     emergency |-> Max(1, remaining \div 10)]

\* lines 143-148: the shares before the scale-down
base_allocation(remaining) ==
    [comprehensive |-> Max(1, remaining \div 3),
     quick |-> Max(1, remaining \div 6),
     social |-> Max(1, remaining \div 8),
     emergency |-> Max(5, remaining \div 10)]

\* lines 131-159 with the plan written into the quota file
distribute_daily_quota_Persisted(f, t, d) ==
    LET status == get_quota_status(f, t, d)
        remaining == status.calls_remaining
        allocation == base_allocation(remaining)
        data == status.file[1]
    IN  [allocation |-> allocation,
         remaining |-> remaining,
         file |-> <<[k \in DOMAIN data \cup {"allocation"} |->
                       IF k = "allocation" THEN allocation ELSE data[k]]>>]

\* line 156 without its max(1, ...)
distribute_daily_quota_ScaleNoFloor(f, t, d) ==
    LET status == get_quota_status(f, t, d)
        remaining == status.calls_remaining
        allocation == base_allocation(remaining)
        total_allocated == PlanTotal(allocation)
        Scaled(share) == (share * remaining) \div total_allocated
    IN  [allocation |->
            IF total_allocated > remaining
            THEN [comprehensive |-> Scaled(allocation.comprehensive),
                  quick |-> Scaled(allocation.quick),
                  social |-> Scaled(allocation.social),
                  emergency |-> Scaled(allocation.emergency)]
            ELSE allocation,
         remaining |-> remaining,
         file |-> status.file]

distribute_daily_quota(f, t, d) ==
    LET status == get_quota_status(f, t, d)
        remaining == status.calls_remaining
        allocation == base_allocation(remaining)
        total_allocated == PlanTotal(allocation)
        Scaled(share) == Max(1, (share * remaining) \div total_allocated)
    IN  [allocation |->
            IF total_allocated > remaining
            THEN [comprehensive |-> Scaled(allocation.comprehensive),
                  quick |-> Scaled(allocation.quick),
                  social |-> Scaled(allocation.social),
                  emergency |-> Scaled(allocation.emergency)]
            ELSE allocation,
         remaining |-> remaining,
         file |-> status.file]

(***************************************************************************)
(* Direct calls of the ledger API.  ret keeps what the caller got back,    *)
(* together with the file and the disk as the call found them.             *)
(***************************************************************************)
NoRet == [op |-> "none", at |-> 0, before |-> <<>>, value |-> FALSE,
          calls_used |-> 0, calls_remaining |-> 0, n |-> 0,
          allocation |-> NoPlan, readable |-> TRUE, writable |-> TRUE,
          manager |-> "none", kind |-> "none", selected |-> <<>>,
          query |-> <<>>, query_type |-> "none", result |-> None,
          raised |-> FALSE, expired |-> 0]

Called(op) == [NoRet EXCEPT !.op = op, !.at = now, !.before = quotaFile,
                            !.readable = disk.read, !.writable = disk.write]

Idle == run.phase # "loop"

Status ==
    /\ Idle
    /\ LET s == get_quota_status(quotaFile, now, disk)
       IN  /\ quotaFile' = s.file
           /\ ret' = [Called("status") EXCEPT !.value = s.can_make_calls,
                          !.calls_used = s.calls_used,
                          !.calls_remaining = s.calls_remaining]
    /\ UNCHANGED <<now, disk, nDirect, thr, conns, sched>>
    /\ UNCHANGED runVars

CanAfford ==
    /\ Idle
    /\ \E n \in 0..MaxAsk :
          LET c == can_make_calls(quotaFile, now, disk, n)
          IN  /\ quotaFile' = c.file
              /\ ret' = [Called("canAfford") EXCEPT !.value = c.value, !.n = n]
    /\ UNCHANGED <<now, disk, nDirect, thr, conns, sched>>
    /\ UNCHANGED runVars

Plan ==
    /\ Idle
    /\ LET p == distribute_daily_quota(quotaFile, now, disk)
       IN  /\ quotaFile' = p.file
           /\ ret' = [Called("plan") EXCEPT !.value = TRUE,
                          !.allocation = p.allocation,
                          !.calls_remaining = p.remaining]
    /\ UNCHANGED <<now, disk, nDirect, thr, conns, sched>>
    /\ UNCHANGED runVars

Record ==
    /\ nDirect < MaxDirect
    /\ \E q \in DirectQueries, ty \in {"search", "social"} :
          LET r == record_api_call(quotaFile, now, disk, q, ty)
          IN  /\ quotaFile' = r.file
              /\ ret' = [Called("record") EXCEPT !.value = r.value]
    /\ nDirect' = nDirect + 1
    /\ UNCHANGED <<now, disk, thr, conns, sched>>
    /\ UNCHANGED runVars


(***************************************************************************)
(* Query catalog and selector.  The repository holds two versions of       *)
(* PrioritizedQueryManager: Event-Pipeline/utils/prioritized_queries.py,   *)
(* which enhanced_scheduler.py imports, and utils/prioritized_queries.py,  *)
(* which adds the media tier and another weight table.  A query manager is *)
(* its tiers and its priority_weights table.                               *)
(***************************************************************************)
pipeline_query_manager ==
    [urgent_queries |-> Tier("urgent", 5, "search"),
     high_priority_queries |-> Tier("high", 10, "search"),
     medium_priority_queries |-> Tier("medium", 10, "search"),
     low_priority_queries |-> Tier("low", 10, "search"),
     social_media_queries |-> Tier("social", 8, "social"),
     nigerian_media_queries |-> <<>>,
     priority_weights |-> [urgent |-> 5, high |-> 4, medium |-> 3, low |-> 2,
                           social |-> 1]]

utils_query_manager ==
    [urgent_queries |-> Tier("urgent", 7, "search"),
     high_priority_queries |-> Tier("high", 11, "search"),
     medium_priority_queries |-> Tier("medium", 10, "search"),
     low_priority_queries |-> Tier("low", 10, "search"),
     social_media_queries |-> Tier("social", 14, "social"),
     nigerian_media_queries |-> Tier("media", 10, "media"),
     priority_weights |-> [urgent |-> 6, high |-> 5, media |-> 4, medium |-> 3,
                           social |-> 2, low |-> 1]]

get_all_queries(qm) ==
    qm.urgent_queries \o qm.high_priority_queries \o
    qm.medium_priority_queries \o qm.low_priority_queries \o
    qm.social_media_queries \o qm.nigerian_media_queries

\* Python's s[:n]: a negative n counts from the end
SliceTo(s, n) ==
    IF n >= 0 THEN SubSeq(s, 1, Min(n, Len(s)))
    ELSE SubSeq(s, 1, Max(0, Len(s) + n))

\* priority_weights.get(x['priority'], 0)
WeightOf(qm, x) ==
    IF x.priority \in DOMAIN qm.priority_weights
    THEN qm.priority_weights[x.priority]
    ELSE 0

MaxWeight == 6

\* sorted(..., reverse=True) is stable: descending weight, catalog order
\* within one weight
RECURSIVE SortedFrom(_, _, _)
SortedFrom(qm, all, w) ==
    IF w < 0 THEN <<>>
    ELSE SelectSeq(all, LAMBDA x : WeightOf(qm, x) = w) \o
         SortedFrom(qm, all, w - 1)

get_comprehensive_queries(qm, max_calls) ==
    SliceTo(SortedFrom(qm, get_all_queries(qm), MaxWeight), max_calls)

\* lines 145-152 taking urgent entries only
get_quick_queries_UrgentOnly(qm, max_calls) ==
    SliceTo(qm.urgent_queries, max_calls)

\* lines 145-152 without the final [:max_calls]
get_quick_queries_NoFinalSlice(qm, max_calls) ==
    qm.urgent_queries \o
    SliceTo(qm.high_priority_queries, max_calls - Len(qm.urgent_queries))

get_quick_queries(qm, max_calls) ==
    LET quick_queries ==
            qm.urgent_queries \o
            SliceTo(qm.high_priority_queries,
                    max_calls - Len(qm.urgent_queries))
    IN  SliceTo(quick_queries, max_calls)

\* line 156 taking the last max_calls entries instead of the first
get_social_queries_FromEnd(qm, max_calls) ==
    SubSeq(qm.social_media_queries,
           Len(qm.social_media_queries) -
               Min(max_calls, Len(qm.social_media_queries)) + 1,
           Len(qm.social_media_queries))

get_social_queries(qm, max_calls) == SliceTo(qm.social_media_queries, max_calls)

(***************************************************************************)
(* Response cache: utils/api_cache.py.  The md5 digest in the file name is *)
(* taken to be collision free, so a key is the pair it is computed from.   *)
(***************************************************************************)
cache_durations(query_type) ==
    CASE query_type = "search" -> 2
      [] query_type = "social" -> 4
      [] query_type = "news" -> 1
      [] OTHER -> 2

\* the file name without the kind in it
get_cache_key_QueryOnly(query, query_type) == <<"search", query>>

get_cache_key(query, query_type) == <<query_type, query>>

\* What a cache file can hold.  "entry" is what set() writes.  The others
\* are files something else left there: "bad_json" does not parse
\* (JSONDecodeError), "bad_timestamp" parses to an object whose timestamp is
\* missing or not an ISO date (ValueError), "not_object" parses to a list or
\* null, on which cache_data.get raises AttributeError.
CaughtForms == {"bad_json", "bad_timestamp"}
UncaughtForms == {"not_object"}

CorruptFile(form) ==
    [form |-> form, timestamp |-> 0, query |-> <<>>, query_type |-> "search",
     results |-> None]

Without(c, keys) == [k \in DOMAIN c \ keys |-> c[k]]

\* datetime.now() - cached_time < cache_duration, with <= instead
cache_get_InclusiveTTL(c, t, query, query_type) ==
    LET cache_key == get_cache_key(query, query_type)
    IN  IF cache_key \notin DOMAIN c
        THEN [result |-> None, cache |-> c, raised |-> FALSE]
        ELSE IF c[cache_key].form \in UncaughtForms
        THEN [result |-> None, cache |-> c, raised |-> TRUE]
        ELSE IF c[cache_key].form \in CaughtForms
        THEN [result |-> None, cache |-> Without(c, {cache_key}),
              raised |-> FALSE]
        ELSE IF t - c[cache_key].timestamp <= cache_durations(query_type)
        THEN [result |-> c[cache_key].results, cache |-> c, raised |-> FALSE]
        ELSE [result |-> None, cache |-> Without(c, {cache_key}),
              raised |-> FALSE]

\* lines 59-63 catching every exception, as the comment there intends
cache_get_CatchAll(c, t, query, query_type) ==
    LET cache_key == get_cache_key(query, query_type)
    IN  IF cache_key \notin DOMAIN c
        THEN [result |-> None, cache |-> c, raised |-> FALSE]
        ELSE IF c[cache_key].form # "entry"
        THEN [result |-> None, cache |-> Without(c, {cache_key}),
              raised |-> FALSE]
        ELSE IF t - c[cache_key].timestamp < cache_durations(query_type)
        THEN [result |-> c[cache_key].results, cache |-> c, raised |-> FALSE]
        ELSE [result |-> None, cache |-> Without(c, {cache_key}),
              raised |-> FALSE]

\* line 56 left out: an expired file stays where it is
cache_get_KeepsExpired(c, t, query, query_type) ==
    LET cache_key == get_cache_key(query, query_type)
    IN  IF cache_key \notin DOMAIN c
        THEN [result |-> None, cache |-> c, raised |-> FALSE]
        ELSE IF c[cache_key].form \in UncaughtForms
        THEN [result |-> None, cache |-> c, raised |-> TRUE]
        ELSE IF c[cache_key].form \in CaughtForms
        THEN [result |-> None, cache |-> Without(c, {cache_key}),
              raised |-> FALSE]
        ELSE IF t - c[cache_key].timestamp < cache_durations(query_type)
        THEN [result |-> c[cache_key].results, cache |-> c, raised |-> FALSE]
        ELSE [result |-> None, cache |-> c, raised |-> FALSE]

cache_get(c, t, query, query_type) ==
    LET cache_key == get_cache_key(query, query_type)
    IN  IF cache_key \notin DOMAIN c
        THEN [result |-> None, cache |-> c, raised |-> FALSE]
        ELSE IF c[cache_key].form \in UncaughtForms
        THEN [result |-> None, cache |-> c, raised |-> TRUE]
        ELSE IF c[cache_key].form \in CaughtForms
        THEN [result |-> None, cache |-> Without(c, {cache_key}),
              raised |-> FALSE]
        ELSE IF t - c[cache_key].timestamp < cache_durations(query_type)
        THEN [result |-> c[cache_key].results, cache |-> c, raised |-> FALSE]
        ELSE [result |-> None, cache |-> Without(c, {cache_key}),
              raised |-> FALSE]

\* lines 65-82 keeping an entry that is already there
cache_set_KeepsOld(c, t, query, results, query_type) ==
    LET cache_key == get_cache_key(query, query_type)
        cache_data == [form |-> "entry", timestamp |-> t, query |-> query,
                       query_type |-> query_type, results |-> results]
    IN  [k \in DOMAIN c \cup {cache_key} |->
            IF k \in DOMAIN c THEN c[k] ELSE cache_data]

cache_set(c, t, query, results, query_type) ==
    LET cache_key == get_cache_key(query, query_type)
        cache_data == [form |-> "entry", timestamp |-> t, query |-> query,
                       query_type |-> query_type, results |-> results]
    IN  [k \in DOMAIN c \cup {cache_key} |->
            IF k = cache_key THEN cache_data ELSE c[k]]

\* the files clear_expired removes: expired entries (age >= the TTL of the
\* kind stored in the file) and files whose error it catches
Expired(c, t) ==
    {k \in DOMAIN c :
        /\ c[k].form = "entry"
        /\ t - c[k].timestamp >= cache_durations(c[k].query_type)}

Caught(c) == {k \in DOMAIN c : c[k].form \in CaughtForms}

Uncaught(c) == {k \in DOMAIN c : c[k].form \in UncaughtForms}

\* lines 84-114 removing only entries older than the TTL
clear_expired_StrictAge(c, t) ==
    LET gone == {k \in DOMAIN c :
                    /\ c[k].form = "entry"
                    /\ t - c[k].timestamp > cache_durations(c[k].query_type)}
    IN  {[cache |-> Without(c, gone), cleared |-> Cardinality(gone),
          raised |-> FALSE]}

\* The outcomes of one sweep.  os.listdir gives the files in no particular
\* order; a file whose error is not caught ends the sweep where it is met,
\* after any of the removable files before it were removed.
clear_expired(c, t) ==
    IF Uncaught(c) = {}
    THEN {[cache |-> Without(c, Expired(c, t) \cup Caught(c)),
           cleared |-> Cardinality(Expired(c, t) \cup Caught(c)),
           raised |-> FALSE]}
    ELSE {[cache |-> Without(c, gone), cleared |-> 0, raised |-> TRUE] :
             gone \in SUBSET (Expired(c, t) \cup Caught(c))}

get_cache_stats(c, t) ==
    IF Uncaught(c) # {}
    THEN [total |-> 0, valid |-> 0, expired |-> 0, raised |-> TRUE]
    ELSE [total |-> Cardinality(DOMAIN c),
          valid |-> Cardinality(DOMAIN c \ (Expired(c, t) \cup Caught(c))),
          expired |-> Cardinality(Expired(c, t) \cup Caught(c)),
          raised |-> FALSE]

(***************************************************************************)
(* Ingest gate: database/db_manager.py.  The md5 digest is taken to be     *)
(* collision free, so a hash is the string it is computed from.            *)
(***************************************************************************)
generate_event_hash(event) == event.title \o event.url \o event.event_date

HashStored(rows, h) == \E i \in 1..Len(rows) : rows[i].hash = h

RECURSIVE save_events(_, _)
save_events(rows, events) ==
    IF events = <<>> THEN [db |-> rows, saved_count |-> 0]
    ELSE LET event == Head(events)
             event_hash == generate_event_hash(event)
         IN  IF HashStored(rows, event_hash)
             THEN save_events(rows, Tail(events))
             ELSE LET rest == save_events(
                                  Append(rows,
                                         [title |-> event.title,
                                          description |-> event.description,
                                          url |-> event.url,
                                          source |-> event.source,
                                          location |-> event.location,
                                          event_date |-> event.event_date,
                                          hash |-> event_hash,
                                          category |-> event.category]),
                                  Tail(events))
                  IN  [db |-> rest.db, saved_count |-> rest.saved_count + 1]

(***************************************************************************)
(* External collaborators: what a search call or the news feed can return. *)
(***************************************************************************)
EventA == [title |-> "Lagos Tech Summit", description |-> "summit in Lagos",
           url |-> "https://a.ng/summit", source |-> "Google Search",
           location |-> "Lagos", event_date |-> "July 4",
           category |-> "Technology"]
EventN == [title |-> "Abuja Trade Fair", description |-> "fair in Abuja",
           url |-> "https://n.ng/fair", source |-> "News",
           location |-> "Abuja", event_date |-> "",
           category |-> "Business"]

Failure == [kind |-> "error", items |-> <<>>]
Responses == {[kind |-> "dict", items |-> <<EventA>>]}
Outcomes == Responses \cup {Failure}
NewsBatches == {<<>>, <<EventN>>}

\* an API response always carries metadata keys, so only None is falsy
Truthy(result) == result.kind = "dict"

ExtractEvents(result) == result.items

(***************************************************************************)
(* save_events statement by statement, each call on a connection of its    *)
(* own (get_connection).  SQLite lets one connection write at a time: the  *)
(* first INSERT of a call opens a transaction and takes the write lock,    *)
(* which is held until the commit; a SELECT made inside a transaction      *)
(* keeps a read lock until the commit, and a writer cannot commit while    *)
(* another connection holds a read lock.  A statement or a commit that is  *)
(* taken while it is locked out is the one whose busy timeout ran out.     *)
(***************************************************************************)
Conns == {1, 2}

\* the event of EventA found again with other details
EventA2 == [EventA EXCEPT !.description = "summit, new venue",
                          !.location = "Ikeja", !.category = "Conference"]

Events == {EventA, EventA2, EventN}

Batches == UNION {[1..n -> Events] : n \in 0..MaxBatch}

\* before, alone and failed observe the call: the table as the call found
\* it, whether no other call ran during it, the records whose statement
\* raised; returned is -1 until the call has returned
NoConn == [pc |-> "idle", events |-> <<>>, i |-> 1, pending |-> <<>>,
           saved_count |-> 0, lock |-> "none", intx |-> FALSE,
           before |-> <<>>, alone |-> TRUE, failed |-> {},
           returned |-> -1, raised |-> FALSE]

\* the row of the INSERT statement
EventRow(event, event_hash) ==
    [title |-> event.title, description |-> event.description,
     url |-> event.url, source |-> event.source,
     location |-> event.location, event_date |-> event.event_date,
     hash |-> event_hash, category |-> event.category]

Visible_CommittedOnly(rows, cn) == rows

\* the rows a connection reads: the committed ones and its own
Visible(rows, cn) == rows \o cn.pending

Commit_NewestFirst(rows, pending) == pending \o rows

\* conn.commit(): the rows of the transaction follow the stored ones
Commit(rows, pending) == rows \o pending

UniqueViolation_NoConstraint(rows, h) == FALSE

\* hash TEXT UNIQUE NOT NULL
UniqueViolation(rows, h) == HashStored(rows, h)

\* the for loop goes to its next event, or ends
Continue(cn) ==
    [cn EXCEPT !.i = @ + 1,
               !.pc = IF cn.i + 1 > Len(cn.events) THEN "commit" ELSE "select"]

SqliteError_AbortsBatch(cn) ==
    [cn EXCEPT !.failed = @ \cup {cn.i}, !.i = Len(cn.events) + 1,
               !.pc = "commit"]

\* except sqlite3.Error: logged, continue
SqliteError(cn) == Continue([cn EXCEPT !.failed = @ \cup {cn.i}])

\* a SELECT inside an open transaction keeps its read lock
AfterSelect(cn) ==
    [cn EXCEPT !.lock = IF cn.intx /\ @ = "none" THEN "shared" ELSE @]

(***************************************************************************)
(* scheduler.py and main.py: the thread of EventScheduler.start and the    *)
(* main thread, which both call run_pipeline on the same scheduler.        *)
(***************************************************************************)
SchedThreads == {"main", "timer"}

\* stopped and at observe stop(): that it was called, and the query each
\* thread was at when it was
NoSched == [running |-> FALSE, due |-> FALSE, stopped |-> FALSE,
            at |-> [t \in SchedThreads |-> 0],
            th |-> [t \in SchedThreads |->
                       [pc |-> IF t = "main" THEN "boot" ELSE "off",
                        q |-> 0, all_events |-> <<>>]]]

(***************************************************************************)
(* Search collaborator: scrapers/search_scraper.py                         *)
(***************************************************************************)
nigeria_query(query) == <<query, "Nigeria Lagos Abuja">>

Scraped(events, f, c, hit, served, failed, raised) ==
    [events |-> events, file |-> f, cache |-> c, hit |-> hit,
     served |-> served, failed |-> failed, raised |-> raised]

google_cse_search_FailureYieldsEvents(f, c, t, d, query, outcome) ==
    LET cached == cache_get(c, t, nigeria_query(query), "search")
    IN  IF cached.raised
        THEN Scraped(<<>>, f, cached.cache, FALSE, 0, 0, FALSE)
        ELSE IF Truthy(cached.result)
        THEN Scraped(ExtractEvents(cached.result), f, cached.cache,
                     TRUE, 0, 0, FALSE)
        ELSE LET afford == can_make_calls(f, t, d, 1)
             IN  IF ~afford.value
                 THEN Scraped(<<>>, afford.file, cached.cache, FALSE, 0, 0, FALSE)
                 ELSE IF outcome = Failure
                 THEN Scraped(<<EventA>>, afford.file, cached.cache, FALSE, 0, 1,
                              FALSE)
                 ELSE Scraped(ExtractEvents(outcome), afford.file,
                              cache_set(cached.cache, t, nigeria_query(query),
                                        outcome, "search"),
                              FALSE, 1, 0, FALSE)

\* outcome is what service.cse().list(...).execute() does if it is reached
google_cse_search(f, c, t, d, query, outcome) ==
    LET cached == cache_get(c, t, nigeria_query(query), "search")
    IN  IF cached.raised
        THEN Scraped(<<>>, f, cached.cache, FALSE, 0, 0, FALSE)
        ELSE IF Truthy(cached.result)
        THEN Scraped(ExtractEvents(cached.result), f, cached.cache,
                     TRUE, 0, 0, FALSE)
        ELSE LET afford == can_make_calls(f, t, d, 1)
             IN  IF ~afford.value
                 THEN Scraped(<<>>, afford.file, cached.cache, FALSE, 0, 0, FALSE)
                 ELSE IF outcome = Failure
                 THEN Scraped(<<>>, afford.file, cached.cache, FALSE, 0, 1, FALSE)
                 ELSE Scraped(ExtractEvents(outcome), afford.file,
                              cache_set(cached.cache, t, nigeria_query(query),
                                        outcome, "search"),
                              FALSE, 1, 0, FALSE)

scrape_google_search(f, c, t, d, query, outcome) ==
    google_cse_search(f, c, t, d, query, outcome)

\* SocialMediaScraper.scrape_google_social_search: cache first, then the
\* quota check, then the fetch; a failed fetch is raised to the orchestrator
scrape_google_social_search(f, c, t, d, query, outcome) ==
    LET cached == cache_get(c, t, query, "social")
    IN  IF cached.raised
        THEN Scraped(<<>>, f, cached.cache, FALSE, 0, 0, TRUE)
        ELSE IF Truthy(cached.result)
        THEN Scraped(ExtractEvents(cached.result), f, cached.cache,
                     TRUE, 0, 0, FALSE)
        ELSE LET afford == can_make_calls(f, t, d, 1)
             IN  IF ~afford.value
                 THEN Scraped(<<>>, afford.file, cached.cache, FALSE, 0, 0, FALSE)
                 ELSE IF outcome = Failure
                 THEN Scraped(<<>>, afford.file, cached.cache, FALSE, 0, 1, TRUE)
                 ELSE Scraped(ExtractEvents(outcome), afford.file,
                              cache_set(cached.cache, t, query, outcome, "social"),
                              FALSE, 1, 0, FALSE)


(***************************************************************************)
(* Run orchestration: enhanced_scheduler.py.  One action per run start,    *)
(* per loop iteration and per run end.  hits, fetched and failed count,    *)
(* for the run, the cache hits, the answered and the failed fetches.       *)
(***************************************************************************)
NoRun == [kind |-> "none", phase |-> "idle", allocation |-> NoPlan,
          max_calls |-> 0, queue |-> <<>>, i |-> 1,
          broke |-> FALSE, skipped |-> FALSE, api_calls_made |-> 0,
          total_new |-> 0, total_events |-> 0, search_events |-> <<>>,
          hits |-> 0, fetched |-> 0, failed |-> 0, summary |-> {}]

InLoop(kind) ==
    /\ run.kind = kind
    /\ run.phase = "loop"
    /\ ~run.broke
    /\ run.i <= Len(run.queue)

\* mutant: the break of line 82 does not leave the loop
LoopOver_BreakStaysInLoop(kind) ==
    /\ run.kind = kind
    /\ run.phase = "loop"
    /\ run.i > Len(run.queue)

LoopOver(kind) ==
    /\ run.kind = kind
    /\ run.phase = "loop"
    /\ (run.broke \/ run.i > Len(run.queue))

Count(b) == IF b THEN 1 ELSE 0

ComprehensiveBudget(allocation) == allocation.comprehensive
QuickBudget(allocation) == Min(3, allocation.quick)
SocialBudget(allocation) == Min(4, allocation.social)

\* max_search_calls / max_calls: the run's entry of the plan, clamped
RunBudget(kind, allocation) ==
    CASE kind = "comprehensive" -> ComprehensiveBudget(allocation)
      [] kind = "quick" -> QuickBudget(allocation)
      [] kind = "social" -> SocialBudget(allocation)

\* the selector each kind of run calls
SelectFrom(qm, kind, max_calls) ==
    CASE kind = "comprehensive" -> get_comprehensive_queries(qm, max_calls)
      [] kind = "quick" -> get_quick_queries(qm, max_calls)
      [] kind = "social" -> get_social_queries(qm, max_calls)

\* the queue each kind of run selects for its budget
SelectedQueries(kind, max_calls) ==
    SelectFrom(pipeline_query_manager, kind, max_calls)

\* the quota check that opens every run, then the plan and the selection
StartRun(kind) ==
    /\ Idle
    /\ nRuns < MaxRuns
    /\ nRuns' = nRuns + 1
    /\ LET quota_status == get_quota_status(quotaFile, now, disk)
       IN  IF ~quota_status.can_make_calls
           THEN /\ quotaFile' = quota_status.file
                /\ run' = [NoRun EXCEPT !.kind = kind, !.phase = "done",
                                        !.skipped = TRUE]
           ELSE LET plan == distribute_daily_quota(quota_status.file, now, disk)
                IN  /\ quotaFile' = plan.file
                    /\ run' = [NoRun EXCEPT
                                   !.kind = kind, !.phase = "loop",
                                   !.allocation = plan.allocation,
                                   !.max_calls =
                                       RunBudget(kind, plan.allocation),
                                   !.queue =
                                       SelectedQueries(kind,
                                           RunBudget(kind, plan.allocation))]
    /\ UNCHANGED <<now, disk, ret, nDirect, cache, db, nFail, apiCallsToday, thr, conns, sched>>

StartComprehensive == StartRun("comprehensive")

StartQuick == StartRun("quick")

StartSocial == StartRun("social")

\* the loop is left when the ledger cannot afford one more call
BreakLoop(afford) ==
    /\ quotaFile' = afford.file
    /\ run' = [run EXCEPT !.broke = TRUE]
    /\ UNCHANGED <<cache, db, nFail, apiCallsToday>>

\* bookkeeping shared by the three loops once the scraper has returned s
AfterScrape(s) ==
    /\ cache' = s.cache
    /\ nFail' = nFail + s.failed
    /\ apiCallsToday' = apiCallsToday + s.served

Scrape(query_info, f, outcome) ==
    IF query_info.type = "social"
    THEN scrape_google_social_search(f, cache, now, disk, query_info.query, outcome)
    ELSE scrape_google_search(f, cache, now, disk, query_info.query, outcome)

\* run_comprehensive_pipeline, lines 79-105: one iteration of the search loop
ComprehensiveStep ==
    /\ InLoop("comprehensive")
    /\ \E outcome \in Outcomes :
          /\ outcome = Failure => nFail < MaxFail
          /\ \E query_info \in {run.queue[run.i]} :
             \E afford \in {can_make_calls(quotaFile, now, disk, 1)} :
             \E s \in {Scrape(query_info, afford.file, outcome)} :
             LET rec == record_api_call(s.file, now, disk, query_info.query,
                                        query_info.type)
             IN  IF ~afford.value THEN BreakLoop(afford)
                 ELSE /\ AfterScrape(s)
                      /\ db' = db
                      /\ quotaFile' = IF s.raised THEN s.file ELSE rec.file
                      /\ run' = [run EXCEPT
                              !.i = @ + 1,
                              !.search_events =
                                  IF s.raised THEN @ ELSE @ \o s.events,
                              !.api_calls_made = @ + Count(~s.raised),
                              !.hits = @ + Count(s.hit),
                              !.fetched = @ + s.served,
                              !.failed = @ + s.failed]
    /\ UNCHANGED <<now, disk, ret, nDirect, nRuns, thr, conns, sched>>

\* run_quick_search, lines 166-186, and run_social_media_update, lines
\* 211-231: one iteration; both save what the query found at once
ImmediateStep(kind, query_type) ==
    /\ InLoop(kind)
    /\ \E outcome \in Outcomes :
          /\ outcome = Failure => nFail < MaxFail
          /\ \E query_info \in {run.queue[run.i]} :
             \E afford \in {can_make_calls(quotaFile, now, disk, 1)} :
             \E s \in {IF kind = "social"
                      THEN scrape_google_social_search(afford.file, cache, now,
                               disk, query_info.query, outcome)
                      ELSE scrape_google_search(afford.file, cache, now, disk,
                               query_info.query, outcome)} :
             LET saved == save_events(db, s.events)
                 rec == record_api_call(s.file, now, disk, query_info.query,
                                        query_type)
             IN  IF ~afford.value THEN BreakLoop(afford)
                 ELSE /\ AfterScrape(s)
                      /\ db' = IF s.raised THEN db ELSE saved.db
                      /\ quotaFile' = IF s.raised THEN s.file ELSE rec.file
                      /\ run' = [run EXCEPT
                              !.i = @ + 1,
                              !.total_new =
                                  IF s.raised THEN @ ELSE @ + saved.saved_count,
                              !.total_events =
                                  IF s.raised THEN @ ELSE @ + Len(s.events),
                              !.api_calls_made = @ + Count(~s.raised),
                              !.hits = @ + Count(s.hit),
                              !.fetched = @ + s.served,
                              !.failed = @ + s.failed]
    /\ UNCHANGED <<now, disk, ret, nDirect, nRuns, thr, conns, sched>>

QuickStep == ImmediateStep("quick", "quick")

SocialStep == ImmediateStep("social", "social")

\* sources_summary, lines 110 and 118: an entry for a source that found
\* something
SourceSummary(source, events, saved) ==
    IF events = <<>> THEN {}
    ELSE {<<source \o " found", Len(events)>>, <<source \o " new", saved>>}

\* lines 137-145: the lines of the final summary that carry a count
ComprehensiveSummary(total_events, api_calls_made, final_quota, sources) ==
    {<<"Total events discovered", total_events>>,
     <<"API calls made", api_calls_made>>,
     <<"Quota remaining", final_quota.calls_remaining>>} \cup sources

\* lines 189-190 and 234-235
ImmediateSummary(total_new, api_calls_made, final_quota) ==
    {<<"new events", total_new>>,
     <<"API calls", api_calls_made>>,
     <<"Quota remaining", final_quota.calls_remaining>>}

\* run_comprehensive_pipeline, lines 107-145: the found events are saved,
\* the news feeds are read and saved, the final quota status is logged
FinishComprehensive ==
    /\ LoopOver("comprehensive")
    /\ \E news_events \in NewsBatches :
          LET saved_search == save_events(db, run.search_events)
              saved_news == save_events(saved_search.db, news_events)
              final_quota == get_quota_status(quotaFile, now, disk)
          IN  /\ db' = saved_news.db
              /\ quotaFile' = final_quota.file
              /\ run' = [run EXCEPT
                      !.phase = "done",
                      !.total_events = Len(run.search_events) + Len(news_events),
                      !.total_new = saved_search.saved_count +
                                    saved_news.saved_count,
                      !.summary = ComprehensiveSummary(
                          Len(run.search_events) + Len(news_events),
                          run.api_calls_made, final_quota,
                          SourceSummary("Search Engines", run.search_events,
                                        saved_search.saved_count)
                          \cup SourceSummary("News Sites", news_events,
                                             saved_news.saved_count))]
    /\ UNCHANGED <<now, disk, ret, nDirect, cache, nRuns, nFail,
                   apiCallsToday, thr, conns, sched>>

\* run_quick_search, lines 188-190; run_social_media_update, lines 233-235
FinishImmediate(kind) ==
    /\ LoopOver(kind)
    /\ LET final_quota == get_quota_status(quotaFile, now, disk)
       IN  /\ quotaFile' = final_quota.file
           /\ run' = [run EXCEPT
                   !.phase = "done",
                   !.summary = ImmediateSummary(run.total_new,
                                   run.api_calls_made, final_quota)]
    /\ UNCHANGED <<now, disk, ret, nDirect, cache, db, nRuns, nFail,
                   apiCallsToday, thr, conns, sched>>

FinishQuick == FinishImmediate("quick")

FinishSocial == FinishImmediate("social")

(***************************************************************************)
(* The clock.  apiCallsToday restarts with the calendar day.               *)
(***************************************************************************)
Tick ==
    /\ now < MaxNow
    /\ now' = now + 1
    /\ apiCallsToday' = IF Day(now + 1) = Day(now) THEN apiCallsToday ELSE 0
    /\ UNCHANGED <<disk, quotaFile, ret, nDirect, cache, db, run, nRuns,
                   nFail, thr, conns, sched>>

(***************************************************************************)
(* Construction.  The module-level QuotaManager() finds the quota file an  *)
(* earlier process of the same day left: some calls used, the rest         *)
(* remaining; every call recorded so far was answered by the provider.     *)
(* Or it finds no file and resets: the whole quota remains.                *)
(***************************************************************************)
EarlierEntry == [timestamp |-> StartHour, query |-> <<"urgent", 1>>,
                 type |-> "search"]

FoundFile(remaining) ==
    <<[date |-> StartHour,
       calls_used |-> usable_quota - remaining,
       calls_remaining |-> remaining,
       query_history |-> [i \in 1..(usable_quota - remaining) |-> EarlierEntry]]>>

Threads == {1, 2}

NoData == [date |-> 0, calls_used |-> 0, calls_remaining |-> 0,
           query_history |-> <<>>]

\* a quota file of the same day, late in the day
FoundFiles ==
    {FoundFile(remaining) :
        remaining \in 0..Min(MaxStartRemaining, usable_quota)}

\* os.path.exists(self.quota_file) is false
NoFile == <<>>

InitFrom(files) ==
    /\ now = StartHour
    /\ disk = [read |-> TRUE, write |-> TRUE]
    /\ \E found \in files :
          LET loaded == load_quota_data(found, StartHour,
                                       [read |-> TRUE, write |-> TRUE])
          IN  /\ quotaFile = loaded.file
              /\ apiCallsToday = loaded.data.calls_used
              /\ thr = [base |-> loaded.data.calls_used,
                        th |-> [t \in Threads |->
                                   [pc |-> "idle", data |-> NoData,
                                    calls |-> 0, oks |-> 0]]]
    /\ ret = NoRet
    /\ nDirect = 0
    /\ cache = <<>>
    /\ db = <<>>
    /\ run = NoRun
    /\ nRuns = 0
    /\ nFail = 0
    /\ conns = [c \in Conns |-> NoConn]
    /\ sched = NoSched

Init == InitFrom(FoundFiles)

\* the first process of the day finds no file and starts with the whole quota
InitFresh == InitFrom({NoFile})

InitRuns == InitFrom(FoundFiles \cup {NoFile})

(***************************************************************************)
(* Two threads calling record_api_call at once.  The source takes no lock: *)
(* a call loads the file (line 91), and saves what it loaded with one more *)
(* call counted (line 106); another thread can run in between.             *)
(***************************************************************************)
ThreadQuery(t) == <<"urgent", t>>

RecordBegin(t) ==
    /\ thr.th[t].pc = "idle"
    /\ thr.th[t].calls < MaxThreadCalls
    /\ LET l == load_quota_data(quotaFile, now, disk)
       IN  /\ quotaFile' = l.file
           /\ thr' = [thr EXCEPT !.th[t] =
                  IF l.data.calls_remaining <= 0
                  THEN [@ EXCEPT !.calls = @ + 1]
                  ELSE [@ EXCEPT !.pc = "loaded", !.data = l.data]]
    /\ UNCHANGED <<now, disk, ret, nDirect, conns, sched>>
    /\ UNCHANGED runVars

RecordEnd(t) ==
    /\ thr.th[t].pc = "loaded"
    /\ quotaFile' = save_quota_data(quotaFile,
                        Recorded(thr.th[t].data, now, ThreadQuery(t), "search"),
                        disk)
    /\ thr' = [thr EXCEPT !.th[t] =
                  [@ EXCEPT !.pc = "idle", !.data = NoData,
                            !.calls = @ + 1, !.oks = @ + 1]]
    /\ UNCHANGED <<now, disk, ret, nDirect, conns, sched>>
    /\ UNCHANGED runVars

NextConc ==
    \/ \E t \in Threads : RecordBegin(t)
    \/ \E t \in Threads : RecordEnd(t)

SpecConc == Init /\ [][NextConc]_vars

(***************************************************************************)
(* The ledger on a disk that can fail: reads and writes of the quota file  *)
(* raise, and load_quota_data / save_quota_data catch what is raised.      *)
(***************************************************************************)
DiskFault ==
    /\ \E d \in [read : BOOLEAN, write : BOOLEAN] :
          /\ d # disk
          /\ disk' = d
    /\ UNCHANGED <<now, quotaFile, ret, nDirect, thr, conns, sched>>
    /\ UNCHANGED runVars

NextIO ==
    \/ Status
    \/ Record
    \/ DiskFault

SpecIO == Init /\ [][NextIO]_vars

(***************************************************************************)
(* The ledger API called directly, across days.                            *)
(***************************************************************************)
NextLedger ==
    \/ Status
    \/ CanAfford
    \/ Plan
    \/ Record
    \/ Tick

SpecLedger == Init /\ [][NextLedger]_vars

(***************************************************************************)
(* Pipeline runs, one at a time, within one calendar day.                  *)
(***************************************************************************)
TickSameDay == Tick /\ Day(now') = Day(now)

Next ==
    \/ StartComprehensive
    \/ StartQuick
    \/ StartSocial
    \/ ComprehensiveStep
    \/ QuickStep
    \/ SocialStep
    \/ FinishComprehensive
    \/ FinishQuick
    \/ FinishSocial
    \/ TickSameDay

Spec == Init /\ [][Next]_vars

(***************************************************************************)
(* The runs alone, from any start of the process, the fresh day included,  *)
(* where the plan's shares exceed the runs' own ceilings.                  *)
(***************************************************************************)
NextRuns ==
    \/ StartComprehensive
    \/ StartQuick
    \/ StartSocial
    \/ ComprehensiveStep
    \/ QuickStep
    \/ SocialStep
    \/ FinishComprehensive
    \/ FinishQuick
    \/ FinishSocial

SpecRuns == InitRuns /\ [][NextRuns]_vars

(***************************************************************************)
(* Direct calls of the cache, as search_scraper.py and cleanup_cache make  *)
(* them, while the clock advances.  A payload is a response body of the    *)
(* provider: parsed JSON, which json.dump and json.load give back as it    *)
(* was.                                                                    *)
(***************************************************************************)
CacheQueries == {<<"urgent", 1>>}
CacheKinds == {"search", "social", "news"}
CachePayloads == Responses \cup {[kind |-> "dict", items |-> <<>>]}

\* set() called with one of the given queries
CacheSetOf(queries) ==
    /\ \E query \in queries, query_type \in CacheKinds,
          results \in CachePayloads :
          /\ cache' = cache_set(cache, now, query, results, query_type)
          /\ ret' = [NoRet EXCEPT !.op = "set", !.at = now, !.query = query,
                         !.query_type = query_type, !.result = results]
    /\ UNCHANGED <<now, disk, quotaFile, nDirect, thr, conns, sched>>
    /\ UNCHANGED <<db, run, nRuns, nFail, apiCallsToday>>

CacheSet == CacheSetOf(CacheQueries)

CacheGet ==
    /\ \E query \in CacheQueries, query_type \in CacheKinds :
          LET got == cache_get(cache, now, query, query_type)
              cache_key == get_cache_key(query, query_type)
              found == cache_key \in DOMAIN cache
          IN  /\ cache' = got.cache
              /\ ret' = [NoRet EXCEPT
                             !.op = "get", !.query = query,
                             !.query_type = query_type, !.result = got.result,
                             !.raised = got.raised,
                             \* the file as the call found it, and its age
                             !.value = found,
                             !.n = IF found
                                   THEN now - cache[cache_key].timestamp
                                   ELSE 0]
    /\ UNCHANGED <<now, disk, quotaFile, nDirect, thr, conns, sched>>
    /\ UNCHANGED <<db, run, nRuns, nFail, apiCallsToday>>

\* cleanup_cache, lines 237-247: the sweep, then the statistics
ClearExpired ==
    /\ \E swept \in clear_expired(cache, now) :
          /\ cache' = swept.cache
          /\ ret' = [NoRet EXCEPT
                         !.op = "clear", !.n = swept.cleared,
                         !.raised = swept.raised,
                         !.expired =
                             IF swept.raised THEN 0
                             ELSE get_cache_stats(swept.cache, now).expired]
    /\ UNCHANGED <<now, disk, quotaFile, nDirect, thr, conns, sched>>
    /\ UNCHANGED <<db, run, nRuns, nFail, apiCallsToday>>

\* get_cache_status, lines 250-257
Stats ==
    /\ LET stats == get_cache_stats(cache, now)
       IN  ret' = [NoRet EXCEPT !.op = "stats", !.n = stats.total,
                       !.value = stats.valid > 0, !.expired = stats.expired,
                       !.raised = stats.raised]
    /\ UNCHANGED <<now, disk, quotaFile, nDirect, thr, conns, sched>>
    /\ UNCHANGED runVars

NextCache ==
    \/ CacheSet
    \/ CacheGet
    \/ ClearExpired
    \/ Stats
    \/ Tick

SpecCache == InitFresh /\ [][NextCache]_vars

\* something other than set() leaves a file under a cache key
Corrupt ==
    /\ \E query \in CacheQueries, query_type \in CacheKinds,
          form \in CaughtForms \cup UncaughtForms :
          cache' = [k \in DOMAIN cache \cup
                              {get_cache_key(query, query_type)} |->
                       IF k = get_cache_key(query, query_type)
                       THEN CorruptFile(form) ELSE cache[k]]
    /\ UNCHANGED <<now, disk, quotaFile, ret, nDirect, thr, conns, sched>>
    /\ UNCHANGED <<db, run, nRuns, nFail, apiCallsToday>>

NextCorrupt ==
    \/ CacheSet
    \/ CacheGet
    \/ Corrupt
    \/ Tick

SpecCorrupt == InitFresh /\ [][NextCorrupt]_vars

\* save_events called with batches of records that scrapers can deliver:
\* EventToday and EventDated are two listings of one site, one whose url
\* ends in "today" with no date extracted, one with the date "today".
EventToday == [title |-> "Lagos Events", description |-> "what is on",
               url |-> "https://a.ng/events/today", source |-> "Google Search",
               location |-> "Lagos", event_date |-> "",
               category |-> "General"]
EventDated == [EventToday EXCEPT !.url = "https://a.ng/events/",
                                 !.event_date = "today"]

IngestEvents == {EventA, EventA2, EventN, EventToday, EventDated}

Ingest ==
    /\ nDirect < MaxDirect
    /\ nDirect' = nDirect + 1
    /\ \E events \in UNION {[1..n -> IngestEvents] : n \in 1..MaxBatch} :
          LET saved == save_events(db, events)
          IN  /\ db' = saved.db
              /\ ret' = [Called("ingest") EXCEPT !.selected = events,
                             !.before = db, !.n = saved.saved_count]
    /\ UNCHANGED <<now, disk, quotaFile, cache, run, nRuns, nFail,
                   apiCallsToday, thr, conns, sched>>

SpecFingerprint == InitFresh /\ [][Ingest]_vars

\* The ledger API on a quota file of the same day with any number of
\* calls left.
AnyFoundFiles == {FoundFile(remaining) : remaining \in 0..usable_quota}

NextPlan ==
    \/ Plan
    \/ Record

SpecPlan == InitFrom(AnyFoundFiles) /\ [][NextPlan]_vars

\* set() for two queries under every kind, all within one hour
KeyQueries == {<<"urgent", 1>>, <<"urgent", 2>>}

KeySet == CacheSetOf(KeyQueries)

SpecKeys == InitFresh /\ [][KeySet]_vars

\* the sweep where files of any form can be in the directory
NextSweep ==
    \/ CacheSet
    \/ CacheGet
    \/ ClearExpired
    \/ Corrupt
    \/ Tick

SpecSweep == InitFresh /\ [][NextSweep]_vars

(***************************************************************************)
(* Direct calls of the selectors of either query manager.                  *)
(***************************************************************************)
QueryManagers ==
    [pipeline |-> pipeline_query_manager, utils |-> utils_query_manager]

RunKinds == {"comprehensive", "quick", "social"}

Select ==
    /\ nDirect < MaxDirect
    /\ nDirect' = nDirect + 1
    /\ \E m \in DOMAIN QueryManagers, kind \in RunKinds,
          max_calls \in 0..MaxSelect :
          ret' = [Called("select") EXCEPT
                     !.manager = m, !.kind = kind, !.n = max_calls,
                     !.selected = SelectFrom(QueryManagers[m], kind, max_calls)]
    /\ UNCHANGED <<now, disk, quotaFile, thr, conns, sched>>
    /\ UNCHANGED runVars

NextSelect == Select

SpecSelect == InitFresh /\ [][NextSelect]_vars

(***************************************************************************)
(* Runs while another process that loads and saves the same quota file     *)
(* records calls of its own, so that the quota can run out between two     *)
(* queries of a run.  A run that has started is executed to its end: each  *)
(* step of it that can be taken is taken eventually.                       *)
(***************************************************************************)
\* the other process records the calls that were left, the provider
\* answering each of them
OtherProcessRecords ==
    /\ nDirect < MaxDirect
    /\ nDirect' = nDirect + 1
    /\ LET l == load_quota_data(quotaFile, now, disk)
       IN  /\ l.data.calls_remaining > 0
           /\ quotaFile' = FoundFile(0)
           /\ apiCallsToday' = apiCallsToday + l.data.calls_remaining
    /\ UNCHANGED <<now, disk, ret, cache, db, run, nRuns, nFail, thr, conns,
                   sched>>

NextShared ==
    \/ StartComprehensive
    \/ StartQuick
    \/ StartSocial
    \/ ComprehensiveStep
    \/ QuickStep
    \/ SocialStep
    \/ FinishComprehensive
    \/ FinishQuick
    \/ FinishSocial
    \/ OtherProcessRecords

\* the step the run in progress takes next
RunStep ==
    \/ ComprehensiveStep
    \/ QuickStep
    \/ SocialStep
    \/ FinishComprehensive
    \/ FinishQuick
    \/ FinishSocial

RunProceeds == WF_vars(RunStep)

SpecShared == Init /\ [][NextShared]_vars /\ RunProceeds

(***************************************************************************)
(* Direct calls of save_events, one on each connection: one after the      *)
(* other, or both at a time.                                               *)
(***************************************************************************)
OthersIdle(c) == \A o \in Conns \ {c} : conns[o].pc = "idle"

\* lines 61-68: an empty batch returns 0 at once
SaveBegin(c) ==
    /\ conns[c] = NoConn
    /\ \E events \in Batches :
          conns' = [o \in Conns |->
              IF o = c
              THEN [NoConn EXCEPT
                       !.pc = IF events = <<>> THEN "idle" ELSE "select",
                       !.events = events,
                       !.before = db,
                       !.alone = OthersIdle(c),
                       !.returned = IF events = <<>> THEN 0 ELSE -1]
              ELSE [conns[o] EXCEPT
                       !.alone = IF conns[o].pc = "idle" THEN @ ELSE FALSE]]
    /\ UNCHANGED <<now, disk, quotaFile, ret, nDirect, cache, db, run, nRuns,
                   nFail, apiCallsToday, thr, sched>>

\* lines 72-78: the duplicate check
SaveSelect(c) ==
    /\ conns[c].pc = "select"
    /\ \E error \in BOOLEAN :
          /\ error => nFail < MaxFail
          /\ nFail' = nFail + Count(error)
          /\ LET cn == conns[c]
                 event_hash == generate_event_hash(cn.events[cn.i])
             IN  conns' = [conns EXCEPT ![c] =
                     IF error THEN SqliteError(cn)
                     ELSE IF HashStored(Visible(db, cn), event_hash)
                     THEN Continue(AfterSelect(cn))
                     ELSE [AfterSelect(cn) EXCEPT !.pc = "insert"]]
    /\ UNCHANGED <<now, disk, quotaFile, ret, nDirect, cache, db, run, nRuns,
                   apiCallsToday, thr, sched>>

\* lines 80-103: the INSERT, and what is caught when it fails
SaveInsert(c) ==
    /\ conns[c].pc = "insert"
    /\ \E error \in BOOLEAN :
          /\ error => nFail < MaxFail
          /\ nFail' = nFail + Count(error)
          /\ LET cn == conns[c]
                 event == cn.events[cn.i]
                 event_hash == generate_event_hash(event)
                 began == [cn EXCEPT !.intx = TRUE]
                 locked == \E o \in Conns \ {c} : conns[o].lock = "reserved"
             IN  conns' = [conns EXCEPT ![c] =
                     IF error \/ locked THEN SqliteError(began)
                     ELSE IF UniqueViolation(Visible(db, cn), event_hash)
                     THEN SqliteError([began EXCEPT !.lock = "reserved"])
                     ELSE Continue([began EXCEPT
                              !.lock = "reserved",
                              !.pending = Append(@, EventRow(event, event_hash)),
                              !.saved_count = @ + 1])]
    /\ UNCHANGED <<now, disk, quotaFile, ret, nDirect, cache, db, run, nRuns,
                   apiCallsToday, thr, sched>>

\* lines 105-108: the commit; when it raises, the with block rolls back
SaveCommit(c) ==
    /\ conns[c].pc = "commit"
    /\ LET cn == conns[c]
           locked == /\ cn.lock = "reserved"
                     /\ \E o \in Conns \ {c} : conns[o].lock = "shared"
           closed == [cn EXCEPT !.pc = "idle", !.pending = <<>>,
                                !.lock = "none", !.intx = FALSE]
       IN  IF locked
           THEN /\ db' = db
                /\ conns' = [conns EXCEPT ![c] = [closed EXCEPT !.raised = TRUE]]
           ELSE /\ db' = Commit(db, cn.pending)
                /\ conns' = [conns EXCEPT ![c] =
                       [closed EXCEPT !.returned = cn.saved_count]]
    /\ UNCHANGED <<now, disk, quotaFile, ret, nDirect, cache, run, nRuns, nFail,
                   apiCallsToday, thr, sched>>

NextIngest ==
    \/ \E c \in Conns : SaveBegin(c)
    \/ \E c \in Conns : SaveSelect(c)
    \/ \E c \in Conns : SaveInsert(c)
    \/ \E c \in Conns : SaveCommit(c)

SpecIngest == InitFresh /\ [][NextIngest]_vars

(***************************************************************************)
(* main.py and scheduler.py.  main starts EventScheduler.start on a thread *)
(* of its own and then, unless PORT is set, calls run_pipeline itself.     *)
(* The job of the schedule library becomes due every 15 minutes; how long  *)
(* a run takes is not bounded.  No social media credentials are set, so    *)
(* SocialMediaAPI.get_all_events returns no event.                         *)
(***************************************************************************)
scrape_all_max_calls == 25

max_events == 50

\* the queries of scrape_all, of which the first MaxQueries are modelled
PipelineQueries ==
    SliceTo(get_comprehensive_queries(utils_query_manager,
                                      scrape_all_max_calls), MaxQueries)

RunStages == {"search", "news", "social", "cleanup"}

InRun(t) == sched.th[t].pc \in RunStages

RECURSIVE UniqueByUrl(_, _)
\* scrape_all, lines 484-497: the first event of each url
UniqueByUrl(events, seen_urls) ==
    IF events = <<>> THEN <<>>
    ELSE LET event == Head(events)
         IN  IF event.url # "" /\ event.url \notin seen_urls
             THEN <<event>> \o UniqueByUrl(Tail(events),
                                           seen_urls \cup {event.url})
             ELSE UniqueByUrl(Tail(events), seen_urls)

\* run_pipeline is entered by thread t
BeginRun(t) == [sched.th[t] EXCEPT !.pc = "search", !.q = 1,
                                   !.all_events = <<>>]

\* main.py, lines 37-39
MainStartsThread ==
    /\ sched.th["main"].pc = "boot"
    /\ sched' = [sched EXCEPT !.th["main"].pc = "started",
                              !.th["timer"].pc = "starting"]
    /\ UNCHANGED <<now, disk, quotaFile, ret, nDirect, cache, db, run, nRuns,
                   nFail, apiCallsToday, thr, conns>>

\* scheduler.py, lines 78-85
SchedulerStart ==
    /\ sched.th["timer"].pc = "starting"
    /\ sched' = [sched EXCEPT !.running = TRUE, !.th["timer"].pc = "wait"]
    /\ UNCHANGED <<now, disk, quotaFile, ret, nDirect, cache, db, run, nRuns,
                   nFail, apiCallsToday, thr, conns>>

\* 15 minutes have passed since the job was registered or last run
JobDue ==
    /\ sched.th["timer"].pc = "wait"
    /\ ~sched.due
    /\ nRuns < MaxRuns
    /\ sched' = [sched EXCEPT !.due = TRUE]
    /\ UNCHANGED <<now, disk, quotaFile, ret, nDirect, cache, db, run, nRuns,
                   nFail, apiCallsToday, thr, conns>>

\* scheduler.py, lines 87-88: run_pending runs the job that is due
TimerDispatch ==
    /\ sched.th["timer"].pc = "wait"
    /\ sched.running
    /\ sched.due
    /\ sched' = [sched EXCEPT !.due = FALSE, !.th["timer"] = BeginRun("timer")]
    /\ nRuns' = nRuns + 1
    /\ UNCHANGED <<now, disk, quotaFile, ret, nDirect, cache, db, run, nFail,
                   apiCallsToday, thr, conns>>

\* scheduler.py, line 87: the loop ends when running is false
TimerExit ==
    /\ sched.th["timer"].pc = "wait"
    /\ ~sched.running
    /\ sched' = [sched EXCEPT !.th["timer"].pc = "exited"]
    /\ UNCHANGED <<now, disk, quotaFile, ret, nDirect, cache, db, run, nRuns,
                   nFail, apiCallsToday, thr, conns>>

\* main.py, lines 47-50: PORT is not set
InitialScrape ==
    /\ sched.th["main"].pc = "started"
    /\ sched' = [sched EXCEPT !.th["main"] = BeginRun("main")]
    /\ UNCHANGED <<now, disk, quotaFile, ret, nDirect, cache, db, run, nRuns,
                   nFail, apiCallsToday, thr, conns>>

\* main.py, lines 43-46: PORT is set
SkipInitialScrape ==
    /\ sched.th["main"].pc = "started"
    /\ sched' = [sched EXCEPT !.th["main"].pc = "serve"]
    /\ UNCHANGED <<now, disk, quotaFile, ret, nDirect, cache, db, run, nRuns,
                   nFail, apiCallsToday, thr, conns>>

\* scrape_all, lines 439-455: one query of the loop
PipelineQuery(t) ==
    /\ sched.th[t].pc = "search"
    /\ sched.th[t].q <= Len(PipelineQueries)
    /\ \E outcome \in Outcomes :
          /\ outcome = Failure => nFail < MaxFail
          /\ \E s \in {scrape_google_search(quotaFile, cache, now, disk,
                             PipelineQueries[sched.th[t].q].query, outcome)} :
                /\ quotaFile' = s.file
                /\ AfterScrape(s)
                /\ sched' = [sched EXCEPT
                       !.th[t].q = @ + 1,
                       !.th[t].all_events = @ \o s.events]
    /\ UNCHANGED <<now, disk, ret, nDirect, db, run, nRuns, thr, conns>>

\* scrape_all, lines 484-497, and run_pipeline, lines 50-53
PipelineSaveSearch(t) ==
    /\ sched.th[t].pc = "search"
    /\ sched.th[t].q > Len(PipelineQueries)
    /\ LET unique_events == UniqueByUrl(sched.th[t].all_events, {})
           search_events == SliceTo(unique_events, max_events)
       IN  db' = save_events(db, search_events).db
    /\ sched' = [sched EXCEPT !.th[t].pc = "news"]
    /\ UNCHANGED <<now, disk, quotaFile, ret, nDirect, cache, run, nRuns,
                   nFail, apiCallsToday, thr, conns>>

\* run_pipeline, lines 55-60
PipelineNews(t) ==
    /\ sched.th[t].pc = "news"
    /\ \E news_events \in NewsBatches :
          db' = save_events(db, news_events).db
    /\ sched' = [sched EXCEPT !.th[t].pc = "social"]
    /\ UNCHANGED <<now, disk, quotaFile, ret, nDirect, cache, run, nRuns,
                   nFail, apiCallsToday, thr, conns>>

\* run_pipeline, lines 62-67
PipelineSocial(t) ==
    /\ sched.th[t].pc = "social"
    /\ db' = save_events(db, <<>>).db
    /\ sched' = [sched EXCEPT !.th[t].pc = "cleanup"]
    /\ UNCHANGED <<now, disk, quotaFile, ret, nDirect, cache, run, nRuns,
                   nFail, apiCallsToday, thr, conns>>

\* run_pipeline, lines 69-73: no stored event is 30 days old
PipelineCleanup(t) ==
    /\ sched.th[t].pc = "cleanup"
    /\ sched' = [sched EXCEPT
           !.th[t].pc = IF t = "main" THEN "serve" ELSE "wait"]
    /\ UNCHANGED <<now, disk, quotaFile, ret, nDirect, cache, db, run, nRuns,
                   nFail, apiCallsToday, thr, conns>>

\* scheduler.py, lines 91-94
Stop ==
    /\ ~sched.stopped
    /\ sched.th["timer"].pc \notin {"off", "starting"}
    /\ sched' = [sched EXCEPT
           !.running = FALSE,
           !.stopped = TRUE,
           !.at = [t \in SchedThreads |->
                      IF InRun(t) THEN sched.th[t].q ELSE 0]]
    /\ UNCHANGED <<now, disk, quotaFile, ret, nDirect, cache, db, run, nRuns,
                   nFail, apiCallsToday, thr, conns>>

NextSched ==
    \/ MainStartsThread
    \/ SchedulerStart
    \/ JobDue
    \/ TimerDispatch
    \/ TimerExit
    \/ InitialScrape
    \/ SkipInitialScrape
    \/ \E t \in SchedThreads : PipelineQuery(t)
    \/ \E t \in SchedThreads : PipelineSaveSearch(t)
    \/ \E t \in SchedThreads : PipelineNews(t)
    \/ \E t \in SchedThreads : PipelineSocial(t)
    \/ \E t \in SchedThreads : PipelineCleanup(t)
    \/ Stop

SpecSched == InitFresh /\ [][NextSched]_vars

(***************************************************************************)
(* Properties.                                                             *)
(***************************************************************************)
FilePresent == quotaFile # <<>>
FileToday == FilePresent /\ Day(quotaFile[1].date) = Day(now)

\* the file a direct call found was written on the day of the call
FoundToday == ret.before # <<>> /\ Day(ret.before[1].date) = Day(ret.at)
FoundStale == ret.before # <<>> /\ Day(ret.before[1].date) # Day(ret.at)

\* C1: in every state reached by status, canAfford, plan and record calls,
\* calls_used + calls_remaining of the persisted ledger equals the usable
\* daily cap, daily_limit - safety_buffer = 90.
C1_UsedPlusRemainingIsCap ==
    FilePresent =>
        /\ quotaFile[1].calls_used + quotaFile[1].calls_remaining
               = daily_limit - safety_buffer
        /\ quotaFile[1].calls_used + quotaFile[1].calls_remaining = 90

C1_Witness ==
    /\ ret.op = "record"
    /\ ret.value
    /\ nDirect = MaxDirect
    /\ FileToday
    /\ quotaFile[1].calls_used + quotaFile[1].calls_remaining = usable_quota
    /\ quotaFile[1].calls_used = ret.before[1].calls_used + 1

\* C2: a record call that finds calls_remaining = 0 in today's ledger (the
\* call after the usable cap is used up) returns false and leaves
\* calls_used, calls_remaining and the history as they were.
C2_RecordWhenExhausted ==
    (ret.op = "record" /\ FoundToday /\ ret.before[1].calls_remaining = 0)
        => (~ret.value /\ quotaFile = ret.before)

C2_Witness ==
    /\ ret.op = "record"
    /\ FoundToday
    /\ ret.before[1].calls_remaining = 0
    /\ ret.before[1].calls_used = usable_quota
    /\ ~ret.value
    /\ quotaFile = ret.before

\* C3: a loop iteration whose query is served from the cache does not touch
\* the ledger: no record is made for it and the quota file is unchanged.
C3_CacheHitLeavesLedger ==
    [][(FileToday /\ run.phase = "loop" /\ run'.hits = run.hits + 1)
           => quotaFile' = quotaFile]_vars

C5_DayRollover ==
    [][((~FileToday) /\ now' = now) =>
          /\ quotaFile' # <<>>
          /\ Day(quotaFile'[1].date) = Day(now)
          /\ IF ret'.op = "record"
             THEN /\ ret'.value
                  /\ quotaFile'[1].calls_used = 1
                  /\ quotaFile'[1].calls_remaining = usable_quota - 1
                  /\ Len(quotaFile'[1].query_history) = 1
             ELSE /\ quotaFile'[1].calls_used = 0
                  /\ quotaFile'[1].calls_remaining = usable_quota
                  /\ quotaFile'[1].query_history = <<>>
                  /\ ret'.op = "status" =>
                        /\ ret'.calls_used = 0
                        /\ ret'.calls_remaining = usable_quota
                        /\ ret'.value
                  /\ ret'.op = "canAfford" =>
                        (ret'.value <=> usable_quota >= ret'.n)
                  /\ ret'.op = "plan" => ret'.calls_remaining = usable_quota]_vars

C5_Witness ==
    /\ ret.op = "status"
    /\ FoundStale
    /\ ret.before[1].calls_used = 90
    /\ ret.calls_used = 0
    /\ ret.calls_remaining = usable_quota
    /\ quotaFile[1].query_history = <<>>

\* C6: record is atomic with respect to other record calls: once the
\* threads are back from their calls, calls_used has grown, and
\* calls_remaining has shrunk, by the number of calls that returned true.
SuccessfulRecords == thr.th[1].oks + thr.th[2].oks

C6_RecordAtomic ==
    (FilePresent /\ \A t \in Threads : thr.th[t].pc = "idle") =>
        /\ quotaFile[1].calls_used = thr.base + SuccessfulRecords
        /\ quotaFile[1].calls_remaining =
               usable_quota - thr.base - SuccessfulRecords

\* C7: when the quota file cannot be read or cannot be written, status does
\* not report quota as available and record does not return true.
C7_IOFailureNotAssumedAway ==
    /\ (ret.op = "status" /\ ~ret.readable) => ~ret.value
    /\ (ret.op = "record" /\ (~ret.readable \/ ~ret.writable)) => ~ret.value

\* C8: within one calendar day the persisted calls_remaining never
\* increases and calls_used never decreases; calls_remaining goes up only
\* when a ledger of an earlier day is reset.
C8_MonotoneWithinDay ==
    [][(FilePresent /\ quotaFile' # <<>>) =>
          /\ Day(quotaFile'[1].date) = Day(quotaFile[1].date) =>
                /\ quotaFile'[1].calls_remaining <= quotaFile[1].calls_remaining
                /\ quotaFile'[1].calls_used >= quotaFile[1].calls_used
          /\ quotaFile'[1].calls_remaining > quotaFile[1].calls_remaining =>
                /\ Day(quotaFile[1].date) # Day(now)
                /\ Day(quotaFile'[1].date) = Day(now)
                /\ quotaFile'[1].calls_remaining >= usable_quota - 1]_vars

C8_Witness ==
    /\ ret.op = "record"
    /\ ret.value
    /\ FoundToday
    /\ ret.at > StartHour
    /\ FilePresent
    /\ quotaFile[1].calls_remaining = ret.before[1].calls_remaining - 1
    /\ quotaFile[1].calls_used = ret.before[1].calls_used + 1

\* C9: when calls_remaining is 0, the plan gives every run kind a budget
\* of 0.
C9_PlanZeroWhenExhausted ==
    (ret.op = "plan" /\ ret.calls_remaining = 0) => ret.allocation = NoPlan

\* C10: the budgets of a plan (comprehensive + quick + social + emergency)
\* sum to at most calls_remaining.
C10_PlanWithinRemaining ==
    ret.op = "plan" => PlanTotal(ret.allocation) <= ret.calls_remaining

\* C11 (as stated): with calls_remaining = 6 the plan is the unscaled
\* shares comprehensive 2, quick 1, social 1, emergency 1.
C11_PlanAtSixUnscaled ==
    (ret.op = "plan" /\ ret.calls_remaining = 6)
        => ret.allocation = [comprehensive |-> 2, quick |-> 1, social |-> 1,
                             emergency |-> 1]

\* C11 (amended): with calls_remaining = 6 the shares before scaling are
\* comprehensive 2, quick 1, social 1, emergency 5 (sum 9 > 6), and the plan
\* returned is their scale-down comprehensive 1, quick 1, social 1,
\* emergency 3.
C11_PlanAtSixScaled ==
    (ret.op = "plan" /\ ret.calls_remaining = 6)
        => /\ base_allocation(ret.calls_remaining) =
                  [comprehensive |-> 2, quick |-> 1, social |-> 1,
                   emergency |-> 5]
           /\ ret.allocation = [comprehensive |-> 1, quick |-> 1, social |-> 1,
                                emergency |-> 3]

C11_Witness ==
    /\ ret.op = "plan"
    /\ ret.calls_remaining = 6
    /\ PlanTotal(ret.allocation) = 6

\* C12: a quick run's budget is at most 3 and a social run's at most 4
\* whatever the plan says, a comprehensive run's budget is its share of the
\* plan; a run selects no more queries than its budget, processes no more
\* than it selected, and issues no more fetches and no more record calls
\* than it processed.
C12_RunWithinBudget ==
    run.phase \in {"loop", "done"} /\ ~run.skipped =>
        /\ run.kind = "quick" => run.max_calls <= 3
        /\ run.kind = "social" => run.max_calls <= 4
        /\ run.kind = "comprehensive" =>
               run.max_calls = run.allocation.comprehensive
        /\ Len(run.queue) <= run.max_calls
        /\ run.i - 1 <= Len(run.queue)
        /\ run.fetched + run.failed <= run.i - 1
        /\ run.api_calls_made <= run.i - 1

\* a quick run whose plan offered more than 3 calls ends with 3 recorded
C12_Witness ==
    /\ run.kind = "quick"
    /\ run.phase = "done"
    /\ run.allocation.quick > 3
    /\ run.api_calls_made = 3
    /\ run.fetched + run.failed = 3

\* C13: get_quota_status, can_make_calls and distribute_daily_quota called
\* on a quota file of the current day leave calls_used, calls_remaining and
\* the history as they were, and no plan is ever in the file.
QuotaFileKeys == {"date", "calls_used", "calls_remaining", "query_history"}

C13_ReadsArePure ==
    [][(Status \/ CanAfford \/ Plan) /\ FileToday
          => /\ FilePresent'
             /\ quotaFile'[1].calls_used = quotaFile[1].calls_used
             /\ quotaFile'[1].calls_remaining = quotaFile[1].calls_remaining
             /\ quotaFile'[1].query_history = quotaFile[1].query_history
             /\ DOMAIN quotaFile'[1] = QuotaFileKeys]_vars

C13_Witness ==
    /\ ret.op = "plan"
    /\ FoundToday
    /\ ret.before[1].calls_used > 0
    /\ PlanTotal(ret.allocation) > 0
    /\ quotaFile = ret.before

\* C14: the comprehensive selection is the first max_calls entries of the
\* whole catalog in the class order urgent > high > media > medium > social
\* > low, entries of one class in catalog order; no entry of a lower class
\* is returned while one of a higher class is left out.
ClassRank(priority) ==
    CASE priority = "urgent" -> 6
      [] priority = "high" -> 5
      [] priority = "media" -> 4
      [] priority = "medium" -> 3
      [] priority = "social" -> 2
      [] priority = "low" -> 1

\* the position of an entry in the catalog of manager m
CatalogIndex(m, x) ==
    CHOOSE i \in 1..Len(get_all_queries(QueryManagers[m])) :
        get_all_queries(QueryManagers[m])[i] = x

Returned(x) == \E i \in 1..Len(ret.selected) : ret.selected[i] = x

C14_ComprehensiveOrder ==
    (ret.op = "select" /\ ret.kind = "comprehensive") =>
        LET all == get_all_queries(QueryManagers[ret.manager])
            sel == ret.selected
        IN  /\ Len(sel) = Min(ret.n, Len(all))
            /\ \A i \in 1..Len(sel) : \E k \in 1..Len(all) : all[k] = sel[i]
            /\ \A i, j \in 1..Len(sel) :
                   i < j =>
                     \/ ClassRank(sel[i].priority) > ClassRank(sel[j].priority)
                     \/ /\ sel[i].priority = sel[j].priority
                        /\ CatalogIndex(ret.manager, sel[i]) <
                               CatalogIndex(ret.manager, sel[j])
            /\ \A k \in 1..Len(all), i \in 1..Len(sel) :
                   ~Returned(all[k]) =>
                       ClassRank(all[k].priority) <= ClassRank(sel[i].priority)

\* C16: the quick selection is the first max_calls entries of the urgent
\* tier followed by the high tier, for every max_calls >= 0: only urgent and
\* high entries, urgent before high, each tier in catalog order; when
\* max_calls is below the number of urgent entries the urgent tier is
\* truncated and no high entry is returned.  With 3 urgent and 2 high
\* entries and max_calls = 4 it is the 3 urgent entries and the first high.
SmallCatalog ==
    [pipeline_query_manager EXCEPT
        !.urgent_queries = Tier("urgent", 3, "search"),
        !.high_priority_queries = Tier("high", 2, "search")]

C16_QuickSelection ==
    (ret.op = "select" /\ ret.kind = "quick") =>
        LET qm == QueryManagers[ret.manager]
            tiers == qm.urgent_queries \o qm.high_priority_queries
            sel == ret.selected
        IN  /\ Len(sel) = Min(ret.n, Len(tiers))
            /\ \A i \in 1..Len(sel) : sel[i] = tiers[i]
            /\ ret.n <= Len(qm.urgent_queries) =>
                   \A i \in 1..Len(sel) : sel[i].priority = "urgent"
            /\ get_quick_queries(SmallCatalog, 4) =
                   SmallCatalog.urgent_queries \o
                   <<SmallCatalog.high_priority_queries[1]>>

\* a quick selection below the size of the urgent tier, and one beyond it
C16_Witness ==
    /\ ret.op = "select"
    /\ ret.kind = "quick"
    /\ ret.n = 3
    /\ Len(ret.selected) = 3
    /\ ret.selected[3].priority = "urgent"
    /\ Len(get_quick_queries(QueryManagers[ret.manager], 7)) = 7

\* the key a direct cache call was made for
RetKey == get_cache_key(ret.query, ret.query_type)

\* the TTLs as the spec gives them, in hours
ClaimedTTL(kind) ==
    CASE kind = "search" -> 2
      [] kind = "news" -> 1
      [] kind = "social" -> 4

\* C17: set(q, k, p) followed by get(q, k) before ttl(k) has elapsed since
\* the set returns p.
C17_CacheRoundTrip ==
    [][(/\ ret.op = "set"
        /\ CacheGet
        /\ ret'.query = ret.query
        /\ ret'.query_type = ret.query_type
        /\ now - ret.at < ClaimedTTL(ret.query_type))
          => (ret'.result = ret.result /\ ~ret'.raised)]_vars

\* a get that returns the payload one hour or more after it was set
C17_Witness ==
    /\ ret.op = "get"
    /\ ret.value
    /\ ret.n >= 1
    /\ ret.result \in CachePayloads

\* C18: get(q, kind) returns the stored payload exactly when an entry for
\* (q, kind) exists and its age is below ttl(kind), ttl being 2 hours for
\* search, 1 for news and 4 for social; otherwise, so at an age of ttl(kind)
\* or more, it returns absent.
C18_ValidIffYoungerThanTTL ==
    [][CacheGet =>
          LET key == get_cache_key(ret'.query, ret'.query_type)
              valid == /\ key \in DOMAIN cache
                       /\ now - cache[key].timestamp <
                              ClaimedTTL(ret'.query_type)
          IN  /\ valid => ret'.result = cache[key].results
              /\ ~valid => ret'.result = None]_vars

\* a get that finds an entry aged exactly its TTL and returns absent
C18_Witness ==
    /\ ret.op = "get"
    /\ ret.value
    /\ ret.n = ClaimedTTL(ret.query_type)
    /\ ret.result = None

\* C19: clear_expired removes exactly the entries whose age has reached the
\* TTL of their kind, read or not, returns how many it removed and leaves
\* every other entry as it was; the statistics taken right after it report
\* no expired entry.
C19_SweepRemovesExpired ==
    [][ClearExpired =>
          LET reached == {k \in DOMAIN cache :
                             now - cache[k].timestamp >=
                                 ClaimedTTL(cache[k].query_type)}
          IN  /\ ~ret'.raised
              /\ DOMAIN cache' = DOMAIN cache \ reached
              /\ \A k \in DOMAIN cache' : cache'[k] = cache[k]
              /\ ret'.n = Cardinality(reached)
              /\ ret'.expired = 0
              /\ get_cache_stats(cache', now').expired = 0]_vars

\* a sweep that removed an entry and left another
C19_Witness ==
    /\ ret.op = "clear"
    /\ ret.n >= 1
    /\ DOMAIN cache # {}

\* C20: a get that finds a file that is not a well-formed entry returns
\* absent, removes the file and raises nothing.
C20_CorruptEntryIsMiss ==
    [][CacheGet =>
          LET key == get_cache_key(ret'.query, ret'.query_type)
          IN  (key \in DOMAIN cache /\ cache[key].form # "entry") =>
                  /\ ret'.result = None
                  /\ ~ret'.raised
                  /\ key \notin DOMAIN cache']_vars

\* the fingerprints of a sequence of rows or of events
Hashes(rows) == {rows[i].hash : i \in 1..Len(rows)}

Fingerprints(events) ==
    {generate_event_hash(events[i]) : i \in 1..Len(events)}

\* C21: whatever save_events calls ran, one after another or overlapping,
\* the events table holds at most one row per fingerprint.
C21_OneRowPerFingerprint ==
    \A i, j \in 1..Len(db) :
        (db[i].hash = db[j].hash) => i = j

\* two overlapping calls were both handed the same event, both have
\* returned, and the event is stored
C21_Witness ==
    /\ \A c \in Conns :
          /\ conns[c].returned >= 0
          /\ ~conns[c].alone
          /\ generate_event_hash(EventA) \in Fingerprints(conns[c].events)
    /\ generate_event_hash(EventA) \in Hashes(db)

\* the fingerprints a call was handed that the table did not hold, but for
\* the records in skip
NewIn(cn, skip) ==
    {generate_event_hash(cn.events[j]) :
        j \in (1..Len(cn.events)) \ skip} \ Hashes(cn.before)

\* C22: a save_events call that runs by itself and meets no storage error
\* returns the number of distinct fingerprints of its batch that were not
\* stored before, and stores exactly those; a batch whose fingerprints are
\* all stored returns 0 and leaves the table as it was.
C22_IngestCountsNewFingerprints ==
    [][\A c \in Conns :
          (SaveCommit(c) /\ conns[c].alone /\ conns[c].failed = {}) =>
              LET new == NewIn(conns[c], {})
              IN  /\ conns'[c].returned = Cardinality(new)
                  /\ Hashes(db') = Hashes(db) \cup new
                  /\ Len(db') = Len(db) + Cardinality(new)
                  /\ new = {} => db' = db]_vars

\* save_events([A, A]) returned 1 and the same batch, saved again, returned 0
C22_Witness ==
    /\ \A c \in Conns :
          /\ conns[c].events = <<EventA, EventA>>
          /\ conns[c].alone
          /\ conns[c].failed = {}
    /\ {conns[c].returned : c \in Conns} = {0, 1}
    /\ Len(db) = 1

\* C23: when the statement for one record raises a storage error, the
\* record is not counted, nothing is raised to the caller and the loop goes
\* to the next record; a call that runs by itself returns the count of the
\* new fingerprints among the records that did not fail, and stores them.
C23_RecordErrorIsSkipped ==
    [][\A c \in Conns :
          /\ ((SaveSelect(c) \/ SaveInsert(c))
                  /\ conns'[c].failed # conns[c].failed) =>
                 /\ conns'[c].failed = conns[c].failed \cup {conns[c].i}
                 /\ conns'[c].saved_count = conns[c].saved_count
                 /\ conns'[c].pending = conns[c].pending
                 /\ ~conns'[c].raised
                 /\ conns'[c].i = conns[c].i + 1
                 /\ conns'[c].pc = IF conns[c].i < Len(conns[c].events)
                                   THEN "select" ELSE "commit"
                 /\ db' = db
          /\ (SaveCommit(c) /\ conns[c].alone) =>
                 LET new == NewIn(conns[c], conns[c].failed)
                 IN  /\ ~conns'[c].raised
                     /\ conns'[c].returned = Cardinality(new)
                     /\ Hashes(db') = Hashes(db) \cup new]_vars

\* the first record of a batch failed and the second was accepted
C23_Witness ==
    \E c \in Conns :
        /\ conns[c].failed = {1}
        /\ Len(conns[c].events) = 2
        /\ conns[c].alone
        /\ conns[c].returned = 1

\* C24: no step of save_events changes or moves a stored row: the table
\* before the step is a prefix of the table after it.
C24_StoredRowsAreKept ==
    [][/\ Len(db') >= Len(db)
       /\ \A i \in 1..Len(db) : db'[i] = db[i]]_vars

\* the event stored with its first description, after a later call was
\* handed the same event with another description and accepted nothing
C24_Witness ==
    /\ Len(db) = 2
    /\ db[1] = EventRow(EventA, generate_event_hash(EventA))
    /\ \E c \in Conns :
          /\ conns[c].returned = 0
          /\ conns[c].before = db
          /\ conns[c].events = <<EventA2>>

\* a run of any kind starts
RunStarts == StartComprehensive \/ StartQuick \/ StartSocial

\* C25: a run started while the status reports 0 calls remaining is over at
\* once: it selects and fetches nothing, touches neither the cache nor the
\* events table, records nothing and leaves the quota file as it was.
C25_ExhaustedRunIsNoOp ==
    [][(RunStarts
          /\ get_quota_status(quotaFile, now, disk).calls_remaining = 0) =>
             /\ run'.phase = "done"
             /\ run'.queue = <<>>
             /\ run'.api_calls_made = 0
             /\ run'.fetched + run'.failed + run'.hits = 0
             /\ cache' = cache
             /\ db' = db
             /\ quotaFile' = quotaFile
             /\ apiCallsToday' = apiCallsToday
             /\ nFail' = nFail]_vars

\* a run that was skipped because an earlier run of the process used the
\* last call
C25_Witness ==
    /\ run.skipped
    /\ run.phase = "done"
    /\ nRuns = 2
    /\ quotaFile # <<>>
    /\ quotaFile[1].calls_remaining = 0
    /\ apiCallsToday = usable_quota

\* what the ledger reports and holds
CallsRemaining == get_quota_status(quotaFile, now, disk).calls_remaining

CallsUsed == get_quota_status(quotaFile, now, disk).calls_used

\* what a run has fetched, been served from the cache, and recorded
RunTally(r) == <<r.i, r.fetched, r.failed, r.hits, r.api_calls_made>>

\* C26: when the ledger cannot afford one more call while a run is in its
\* loop, the next step of the run fetches nothing and records nothing: it
\* leaves the loop, the remaining queries untouched, and the run then ends
\* as any run ends.
C26_QuotaBreakEndsRun ==
    /\ [][(RunStep /\ run.phase = "loop" /\ CallsRemaining < 1) =>
             /\ RunTally(run') = RunTally(run)
             /\ run'.queue = run.queue
             /\ cache' = cache
             /\ apiCallsToday' = apiCallsToday
             /\ nFail' = nFail
             /\ CallsUsed' = CallsUsed
             /\ \/ run'.phase = "loop" /\ run'.broke
                \/ run'.phase = "done"]_vars
    /\ [][(RunStep /\ run.phase = "loop" /\ run.broke) =>
             /\ run'.phase = "done"
             /\ RunTally(run') = RunTally(run)]_vars
    /\ (run.phase = "loop" /\ CallsRemaining < 1) ~> (run.phase = "done")

\* a run that ended after its first query with a selected query left,
\* because the quota had run out
C26_Witness ==
    /\ run.phase = "done"
    /\ run.broke
    /\ run.i = 2
    /\ Len(run.queue) >= 2
    /\ run.fetched = 1

\* the run is at a query of its loop
AtQuery ==
    /\ run.phase = "loop"
    /\ ~run.broke
    /\ run.i <= Len(run.queue)

\* what a run has found and saved
RunYield(r) == <<r.search_events, r.total_events, r.total_new>>

\* C27: a query whose fetch fails adds no record to what the run has found
\* and nothing to the events table or the cache, and the run goes to its
\* next query; after a failure each query is still processed in its turn
\* while the quota lasts, and a run that was not stopped by the quota has
\* processed all its queries when it is over.
C27_FetchFailureIsLocal ==
    /\ [][(RunStep /\ run'.failed = run.failed + 1) =>
             /\ AtQuery
             /\ run'.i = run.i + 1
             /\ run'.phase = "loop"
             /\ ~run'.broke
             /\ run'.queue = run.queue
             /\ RunYield(run') = RunYield(run)
             /\ db' = db
             /\ cache' = cache]_vars
    /\ [][(RunStep /\ AtQuery /\ run.failed >= 1 /\ CallsRemaining >= 1) =>
             /\ run'.i = run.i + 1
             /\ run'.phase = "loop"
             /\ ~run'.broke]_vars
    /\ [](run.phase = "done" /\ ~run.skipped /\ ~run.broke =>
             run.i = Len(run.queue) + 1)

\* a run in which a fetch failed and another query was answered, over with
\* all its queries processed
C27_Witness ==
    /\ run.phase = "done"
    /\ run.failed = 1
    /\ run.fetched >= 1
    /\ ~run.broke
    /\ run.i = Len(run.queue) + 1

\* C28: once stop() has been called, a run that was in its search loop
\* finishes at most the query it was at and starts no further one.
C28_StopEndsRunAtQuery ==
    sched.stopped =>
        \A t \in SchedThreads :
            sched.at[t] >= 1 => sched.th[t].q <= sched.at[t] + 1

\* C29: the run of the main thread and a run dispatched by the timer
\* thread are never in progress at the same time.
C29_OneRunAtATime ==
    ~(InRun("main") /\ InRun("timer"))

\* the lines of a run's summary that carry the count the claim names
SummaryLabels(count) ==
    CASE count = "attempted" -> {}
      [] count = "made" -> {"API calls made", "API calls"}
      [] count = "found" -> {"Total events discovered"}
      [] count = "accepted" ->
             {"Search Engines new", "News Sites new", "new events"}

Reported(count) == \E line \in run.summary : line[1] \in SummaryLabels(count)

ReportedAs(label, n) == <<label, n>> \in run.summary

RunCompletes == (run.phase = "loop") ~> (run.phase = "done")

\* what each kind of run reports when it is done
SummaryIsTheRunsCounts ==
    run.phase = "done" /\ ~run.skipped =>
        /\ \E n \in 0..usable_quota : ReportedAs("Quota remaining", n)
        /\ run.kind = "comprehensive" =>
              /\ ReportedAs("Total events discovered", run.total_events)
              /\ ReportedAs("API calls made", run.api_calls_made)
              /\ run.total_events > 0 => Reported("accepted")
              /\ ~Reported("attempted")
        /\ run.kind \in {"quick", "social"} =>
              /\ ReportedAs("new events", run.total_new)
              /\ ReportedAs("API calls", run.api_calls_made)
              /\ ~Reported("found")
              /\ ~Reported("attempted")

NextQueryCached ==
    /\ run.phase = "loop"
    /\ ~run.broke
    /\ run.i <= Len(run.queue)
    /\ LET query_info == run.queue[run.i]
       IN  IF run.kind = "social"
           THEN Truthy(cache_get(cache, now, query_info.query,
                                 "social").result)
           ELSE Truthy(cache_get(cache, now, nigeria_query(query_info.query),
                                 "search").result)

\* C31: a step of a run at a query with a valid cached response serves it
\* from the cache, whatever the ledger says: the run counts a cache hit
\* and does not leave its loop.
C31_CachedQueryServedBeforeLedger ==
    [][NextQueryCached /\ run' # run =>
           /\ run'.hits = run.hits + 1
           /\ ~run'.broke]_vars

LedgerHistory == load_quota_data(quotaFile, now, disk).data.query_history

\* C32: a step of a run whose fetch fails records nothing: calls_used,
\* calls_remaining and the query history are what they were.
C32_FailedFetchIsNotRecorded ==
    [][run'.failed = run.failed + 1 =>
           /\ CallsUsed' = CallsUsed
           /\ CallsRemaining' = CallsRemaining
           /\ LedgerHistory' = LedgerHistory]_vars

\* C33: on the path of scheduler.py, started with no quota file, the
\* ledger's history has at least one entry for each external search call
\* that was answered.
C33_EveryExternalCallIsRecorded ==
    Len(LedgerHistory) >= apiCallsToday

\* C34: a get that finds an entry whose age has reached the TTL of its
\* kind removes it and nothing else: the statistics then count one file
\* less in total, one expired file less and as many valid ones, and a
\* further get of the key finds no entry.
C34_ExpiredReadDeletes ==
    [][CacheGet =>
          LET key == get_cache_key(ret'.query, ret'.query_type)
              stale == /\ key \in DOMAIN cache
                       /\ now - cache[key].timestamp >=
                              ClaimedTTL(ret'.query_type)
              before == get_cache_stats(cache, now)
              after == get_cache_stats(cache', now')
              again == cache_get(cache', now', ret'.query, ret'.query_type)
          IN  stale =>
                /\ ret'.result = None
                /\ cache' = Without(cache, {key})
                /\ after.total = before.total - 1
                /\ after.expired = before.expired - 1
                /\ after.valid = before.valid
                /\ again.result = None
                /\ again.cache = cache']_vars

\* a get found an entry older than its TTL; the entry is gone and another
\* entry is still there
C34_Witness ==
    /\ ret.op = "get"
    /\ ret.value
    /\ ret.n > ClaimedTTL(ret.query_type)
    /\ RetKey \notin DOMAIN cache
    /\ DOMAIN cache # {}

\* what get(query, query_type) gives the caller on cache c at time t
GetOutcome(c, t, query, query_type) ==
    LET got == cache_get(c, t, query, query_type)
    IN  [result |-> got.result, raised |-> got.raised]

\* C35: whatever files are in the cache, a get right after a sweep gives
\* what the same get gives without the sweep, for every query and kind.
C35_SweepDoesNotChangeGet ==
    [][ClearExpired =>
          \A query \in CacheQueries, query_type \in CacheKinds :
              GetOutcome(cache', now', query, query_type) =
                  GetOutcome(cache, now, query, query_type)]_vars

\* a sweep removed a file and left an entry that get returns
C35_Witness ==
    /\ ret.op = "clear"
    /\ ret.n >= 1
    /\ \E query \in CacheQueries, query_type \in CacheKinds :
          GetOutcome(cache, now, query, query_type).result \in CachePayloads

\* C36: a set of (q, kind) leaves what get returns for every other pair of
\* query and kind as it was, the same query under another kind included.
C36_SetChangesOneKey ==
    [][KeySet =>
          \A query \in KeyQueries, query_type \in CacheKinds :
              <<query, query_type>> # <<ret'.query, ret'.query_type>> =>
                  GetOutcome(cache', now', query, query_type) =
                      GetOutcome(cache, now, query, query_type)]_vars

\* a set happened while the same query under another kind and the other
\* query under the same kind hold another payload, which get returns
C36_Witness ==
    /\ ret.op = "set"
    /\ \E query_type \in CacheKinds \ {ret.query_type} :
          /\ get_cache_key(ret.query, query_type) \in DOMAIN cache
          /\ GetOutcome(cache, now, ret.query, query_type).result \in
                 CachePayloads \ {ret.result}
    /\ \E query \in KeyQueries \ {ret.query} :
          /\ get_cache_key(query, ret.query_type) \in DOMAIN cache
          /\ GetOutcome(cache, now, query, ret.query_type).result \in
                 CachePayloads \ {ret.result}

\* the catalog entries a kind of run can be given
Eligible(qm, kind) ==
    CASE kind = "comprehensive" -> get_all_queries(qm)
      [] kind = "quick" -> qm.urgent_queries \o qm.high_priority_queries
      [] kind = "social" -> qm.social_media_queries

IsPrefix(s, t) == Len(s) <= Len(t) /\ s = SubSeq(t, 1, Len(s))

\* C37: for either catalog, every kind and every max_calls >= 0 the
\* selection has min(max_calls, eligible entries) entries and is a prefix
\* of the selection for max_calls + 1.
C37_SelectionGrowsByAppending ==
    ret.op = "select" =>
        LET qm == QueryManagers[ret.manager]
        IN  /\ Len(ret.selected) =
                   Min(ret.n, Len(Eligible(qm, ret.kind)))
            /\ IsPrefix(ret.selected, SelectFrom(qm, ret.kind, ret.n + 1))

\* a quick selection that reaches into the high tier and is one entry
\* shorter than the next one
C37_Witness ==
    /\ ret.op = "select"
    /\ ret.kind = "quick"
    /\ ret.n > Len(QueryManagers[ret.manager].urgent_queries)
    /\ Len(ret.selected) = ret.n
    /\ Len(SelectFrom(QueryManagers[ret.manager], ret.kind, ret.n + 1)) =
           ret.n + 1

RunShares == {"comprehensive", "quick", "social"}

\* C38: with 1 to usable_quota calls remaining, each of the comprehensive,
\* quick and social budgets of the plan is at least 1 and at most
\* calls_remaining.
C38_RunBudgetsWithinRemaining ==
    (ret.op = "plan" /\ ret.calls_remaining \in 1..usable_quota) =>
        \A share \in RunShares :
            /\ ret.allocation[share] >= 1
            /\ ret.allocation[share] <= ret.calls_remaining

\* the plan made with one call remaining: every run budget is that one call
C38_Witness ==
    /\ ret.op = "plan"
    /\ ret.calls_remaining = 1
    /\ \A share \in RunShares : ret.allocation[share] = 1

\* the three fields the fingerprint is made of
KeyFields(r) == <<r.title, r.url, r.event_date>>

KeysOf(records) == {KeyFields(records[i]) : i \in 1..Len(records)}

\* C39: save_events accepts one record for each combination of title, url
\* and event date in the batch that no stored record has: records that
\* differ in one of the three fields are all accepted.
C39_DuplicateOnlyIfSameFields ==
    ret.op = "ingest" =>
        ret.n = Cardinality(KeysOf(ret.selected) \ KeysOf(ret.before))

====
